---- MODULE Spec2Model ----
(***************************************************************************)
(* The lending/borrowing client layer: the ethers contract adapter         *)
(* (EthersLendingBorrowingContract) and the useHealthFactor hook.          *)
(* Console output is not modelled: nothing reads it back.                  *)
(*                                                                         *)
(* Text is a sequence of one-character strings, so that the decimal        *)
(* conversions act on characters as parseUnits/formatUnits do.  A bigint   *)
(* is held as its decimal text (what BigInt.toString() gives): no leading  *)
(* zeros, "-" only before a non-zero magnitude.                            *)
(***************************************************************************)
EXTENDS Integers, Sequences, FiniteSets, TLC

\* ------------------------------------------------------------- bounds
MaxWholeLen == 2    \* digits before the point in an entered amount
MaxFracLen == 2     \* short fractional parts of an entered amount
MaxLogs == 3        \* entries of a log batch
MaxCalls == 2       \* reads the hook issues in one run of the model

\* The scale every amount conversion of the adapter uses.
Decimals == 18

\* ------------------------------------------------------------- text
Digits == {"0", "1", "2", "3", "4", "5", "6", "7", "8", "9"}

Zeros(n) == [i \in 1..n |-> "0"]

IsDigits(s) == \A i \in 1..Len(s) : s[i] \in Digits

\* The index of the first "." of s, or 0.
DotAt(s) ==
  IF \E i \in 1..Len(s) : s[i] = "."
    THEN CHOOSE i \in 1..Len(s) : s[i] = "." /\ \A j \in 1..(i - 1) : s[j] # "."
    ELSE 0

\* BigInt(text).toString() for a text of digits: leading zeros go, one digit stays.
StripLeadingZeros(s) ==
  IF \A i \in 1..Len(s) : s[i] = "0"
    THEN <<"0">>
    ELSE LET k == CHOOSE i \in 1..Len(s) : s[i] # "0" /\ \A j \in 1..(i - 1) : s[j] = "0"
         IN  SubSeq(s, k, Len(s))

\* BigInt(sign + digits).toString()
BigIntOf(neg, digits) ==
  LET m == StripLeadingZeros(digits)
  IN  IF neg /\ m # <<"0">> THEN <<"-">> \o m ELSE m

\* The three groups of /^(-?)([0-9]*)\.?([0-9]*)$/ on a text the regex matches.
SignOf(s) == Len(s) > 0 /\ s[1] = "-"
Unsigned(s) == IF SignOf(s) THEN Tail(s) ELSE s
WholeOf(s) ==
  LET u == Unsigned(s)
  IN  IF DotAt(u) = 0 THEN u ELSE SubSeq(u, 1, DotAt(u) - 1)
FracOf(s) ==
  LET u == Unsigned(s)
  IN  IF DotAt(u) = 0 THEN <<>> ELSE SubSeq(u, DotAt(u) + 1, Len(u))

MatchesDecimal(s) == IsDigits(WholeOf(s)) /\ IsDigits(FracOf(s))

\* The fractional digits padded with zeros up to the scale.
PadFrac(f, unit) == IF Len(f) < unit THEN f \o Zeros(unit - Len(f)) ELSE f

DigitValue(c) ==
  CASE c = "0" -> 0 [] c = "1" -> 1 [] c = "2" -> 2 [] c = "3" -> 3 [] c = "4" -> 4
    [] c = "5" -> 5 [] c = "6" -> 6 [] c = "7" -> 7 [] c = "8" -> 8 [] c = "9" -> 9

\* m <= n, for two magnitudes without leading zeros.
AtMost(m, n) ==
  \/ Len(m) < Len(n)
  \/ /\ Len(m) = Len(n)
     /\ \/ m = n
        \/ \E i \in 1..Len(m) :
             /\ \A j \in 1..(i - 1) : m[j] = n[j]
             /\ DigitValue(m[i]) < DigitValue(n[i])

\* 2^511: the limit of checkValue for the signed format of width 512 that
\* parseUnits and formatUnits use.
limit ==
  <<"6", "7", "0", "3", "9", "0", "3", "9", "6", "4", "9", "7", "1", "2", "9", "8",
    "5", "4", "9", "7", "8", "7", "0", "1", "2", "4", "9", "9", "1", "0", "2", "9",
    "2", "3", "0", "6", "3", "7", "3", "9", "6", "8", "2", "9", "1", "0", "2", "9",
    "6", "1", "9", "6", "6", "8", "8", "8", "6", "1", "7", "8", "0", "7", "2", "1",
    "8", "6", "0", "8", "8", "2", "0", "1", "5", "0", "3", "6", "7", "7", "3", "4",
    "8", "8", "4", "0", "0", "9", "3", "7", "1", "4", "9", "0", "8", "3", "4", "5",
    "1", "7", "1", "3", "8", "4", "5", "0", "1", "5", "9", "2", "9", "0", "9", "3",
    "2", "4", "3", "0", "2", "5", "4", "2", "6", "8", "7", "6", "9", "4", "1", "4",
    "0", "5", "9", "7", "3", "2", "8", "4", "9", "7", "3", "2", "1", "6", "8", "2",
    "4", "5", "0", "3", "0", "4", "2", "0", "4", "8">>

\* checkValue(val, format) throws its overflow fault: val is outside
\* -limit <= val < limit.
checkValueThrows(val) ==
  IF SignOf(val)
    THEN ~AtMost(Unsigned(val), limit)
    ELSE ~AtMost(val, limit) \/ val = limit

\* BigInt(sign + whole + decimal) of parseUnits(value, unit), on a text the regex
\* matches: the scaled integer.
parseUnits(value, unit) ==
  LET whole == IF WholeOf(value) = <<>> THEN <<"0">> ELSE WholeOf(value)
      d == SubSeq(PadFrac(FracOf(value), unit), 1, unit)
  IN  BigIntOf(SignOf(value), whole \o d)

\* parseUnits(value, unit) throws: not a decimal, no digit at all, digits other
\* than zeros beyond the scale, or a scaled integer that checkValue refuses.
parseUnitsThrows(value, unit) ==
  IF ~MatchesDecimal(value) \/ Len(WholeOf(value)) + Len(FracOf(value)) = 0
    THEN TRUE
    ELSE \/ LET d == PadFrac(FracOf(value), unit)
            IN  \E i \in (unit + 1)..Len(d) : d[i] # "0"
         \/ checkValueThrows(parseUnits(value, unit))

\* Trim leading zeros of the whole part: while str[0] = "0" and str[1] # ".".
RECURSIVE TrimWhole(_)
TrimWhole(s) ==
  IF Len(s) >= 2 /\ s[1] = "0" /\ s[2] # "." THEN TrimWhole(Tail(s)) ELSE s

\* Trim trailing zeros of the fraction: while the last is "0" and the one before is not ".".
RECURSIVE TrimFrac(_)
TrimFrac(s) ==
  IF Len(s) >= 2 /\ s[Len(s)] = "0" /\ s[Len(s) - 1] # "."
    THEN TrimFrac(SubSeq(s, 1, Len(s) - 1))
    ELSE s

\* formatUnits keeping every digit of the scale: the trailing zeros are not trimmed.
formatUnitsUntrimmed(value, unit) ==
  LET neg == SignOf(value)
      str == Unsigned(value)
  IN  IF unit = 0
        THEN value
        ELSE LET padded == IF Len(str) <= unit
                             THEN Zeros(unit + 1 - Len(str)) \o str
                             ELSE str
                 index == Len(padded) - unit
                 pointed == SubSeq(padded, 1, index) \o <<".">>
                              \o SubSeq(padded, index + 1, Len(padded))
             IN  IF neg THEN <<"-">> \o pointed ELSE pointed

\* formatUnits(value, unit) of a bigint.
formatUnits(value, unit) ==
  LET neg == SignOf(value)
      str == Unsigned(value)
  IN  IF unit = 0
        THEN value
        ELSE LET padded == IF Len(str) <= unit
                             THEN Zeros(unit + 1 - Len(str)) \o str
                             ELSE str
                 index == Len(padded) - unit
                 pointed == SubSeq(padded, 1, index) \o <<".">>
                              \o SubSeq(padded, index + 1, Len(padded))
                 trimmed == TrimFrac(TrimWhole(pointed))
             IN  IF neg THEN <<"-">> \o trimmed ELSE trimmed


DigitChar(n) == CHOOSE c \in Digits : DigitValue(c) = n

\* ------------------------------------------------------------- numbers
\* A JavaScript number holding an integer is kept as the decimal text of the value
\* the double has, so that the 53-bit rounding of Number(...) and of * is kept.
\* 2^53: every integer up to it is a double.
TwoPow53 ==
  <<"9", "0", "0", "7", "1", "9", "9", "2", "5", "4", "7", "4", "0", "9", "9", "2">>

\* 2^54 - 1: the largest magnitude of 54 binary digits.
Below2Pow54 ==
  <<"1", "8", "0", "1", "4", "3", "9", "8", "5", "0", "9", "4", "8", "1", "9", "8", "3">>

IsOdd(s) == DigitValue(s[Len(s)]) % 2 = 1

\* floor(s / 2): each digit takes the remainder of the digit on its left.
Half(s) ==
  StripLeadingZeros(
    [i \in 1..Len(s) |->
       DigitChar((10 * (IF i > 1 THEN DigitValue(s[i - 1]) % 2 ELSE 0)
                  + DigitValue(s[i])) \div 2)])

\* 2 * s + bit: each digit takes the carry of the digit on its right.
Twice(s, bit) ==
  LET carry(i) == IF i = Len(s) THEN bit
                  ELSE IF DigitValue(s[i + 1]) >= 5 THEN 1 ELSE 0
      low == [i \in 1..Len(s) |-> DigitChar((2 * DigitValue(s[i]) + carry(i)) % 10)]
  IN  IF DigitValue(s[1]) >= 5 THEN <<"1">> \o low ELSE low

\* s halved until it has 54 binary digits: the quotient, the number of halvings
\* and whether a 1 was shifted out.
RECURSIVE ShiftDown(_, _, _)
ShiftDown(s, k, sticky) ==
  IF AtMost(s, Below2Pow54) /\ k >= 0 /\ sticky \in BOOLEAN
    THEN [q |-> s, k |-> k, sticky |-> sticky]
    ELSE ShiftDown(Half(s), k + 1, sticky \/ IsOdd(s))

\* s doubled k times.
RECURSIVE ShiftUp(_, _)
ShiftUp(s, k) == IF Len(s) > 0 /\ k = 0 THEN s ELSE ShiftUp(Twice(s, 0), k - 1)

\* s + 1: the trailing nines turn to zeros and the digit before them goes up.
PlusOne(s) ==
  LET t == CHOOSE k \in 0..Len(s) :
             /\ \A i \in (Len(s) - k + 1)..Len(s) : s[i] = "9"
             /\ (k = Len(s) \/ s[Len(s) - k] # "9")
  IN  IF t = Len(s) THEN <<"1">> \o Zeros(t)
      ELSE SubSeq(s, 1, Len(s) - t - 1)
             \o <<DigitChar(DigitValue(s[Len(s) - t]) + 1)>> \o Zeros(t)

\* The double nearest to a magnitude above 2^53: 53 binary digits are kept,
\* rounded to nearest, ties to even.
RoundToDouble(mag) ==
  LET d == ShiftDown(mag, 0, FALSE)
      m == Half(d.q)
      up == IsOdd(d.q) /\ (d.sticky \/ IsOdd(m))
  IN  ShiftUp(IF up THEN PlusOne(m) ELSE m, d.k + 1)

\* The double nearest to the integer with the decimal text s.
ToDouble(s) ==
  LET mag == Unsigned(s)
      r == IF AtMost(mag, TwoPow53) THEN mag ELSE RoundToDouble(mag)
  IN  IF SignOf(s) THEN <<"-">> \o r ELSE r

\* Number(x) of a bigint, or of an integer's decimal text.
Number(s) == ToDouble(s)

\* n * 1000 of a number n holding an integer: the exact product, rounded.
Times1000(n) ==
  IF Unsigned(n) = <<"0">> THEN n ELSE ToDouble(n \o <<"0", "0", "0">>)

\* ------------------------------------------------------------- values
NULL == "null"
\* A text-typed slot holding no text (null, undefined).
NullText == <<"null">>
\* The number NaN.
NaN == <<"NaN">>

Accounts == {"0xA", "0xB"}

\* What useDapp() can hand the hook as `contract`: an adapter instance (a new
\* instance is another identity), or another implementation of the interface
\* whose reads reject when the call fails.
Adapters == {"adapter", "adapter2"}
Handles == Adapters \cup {"mock"}

Faults == {"revert", "network"}

\* Fixed-point integers the contract returns from a read.
ReadValues ==
  {<<"0">>, <<"1", "5">> \o Zeros(17), <<"5">> \o Zeros(18)}

\* What the reads behind the hook's calls return: two health factors, and no
\* number.
HookReads == {<<"0">>, <<"1", "5">> \o Zeros(17), NullText}

\* One health factor, for the runs that follow the effect.
SomeReads == {<<"1", "5">> \o Zeros(17)}

\* The promises an adapter's caller can hold at once.
Slots == {"p1", "p2"}

VARIABLES
  contract,      \* the hook's `contract` from useDapp(): NULL or a handle
  account,       \* the hook's `account` from useDapp(): NULL or an address
  effectPending, \* the hook rendered with new dependencies; its effect has not run
  healthFactor,  \* the hook's published state: NullText or a decimal text
  calls,         \* the contract.userHealthFactor calls the hook issued, in order
  microtasks,    \* the continuations queued by settled promises, first in first out
  ops            \* the adapter calls in progress or settled, by promise

vars == <<contract, account, effectPending, healthFactor, calls, microtasks, ops>>

\* ------------------------------------------------------------- adapter reads
\* A value formatUnits takes: a bigint.
IsBigInt(value) == Len(Unsigned(value)) > 0 /\ IsDigits(Unsigned(value))

\* formatUnits(value, unit) throws on a value that is no number (undefined), and
\* on one that checkValue refuses.
formatUnitsThrows(value) ==
  IF IsBigInt(value) THEN checkValueThrows(value) ELSE TRUE

\* userHealthFactor with the catch block passing its zero through formatUnits.
userHealthFactorFormattedZero(ok, value) ==
  IF ok /\ ~formatUnitsThrows(value)
    THEN formatUnits(value, Decimals)
    ELSE formatUnits(<<"0">>, Decimals)

\* EthersLendingBorrowingContract.userHealthFactor: what the call resolves with,
\* given how the underlying read settled.  The await and formatUnits are both in
\* the try block: a failed read and a throw of formatUnits both give "0".
userHealthFactor(ok, value) ==
  IF ok /\ ~formatUnitsThrows(value) THEN formatUnits(value, Decimals) ELSE <<"0">>

\* checkForBrokenHealthFactor with the two returns exchanged.
checkForBrokenHealthFactorInverted(ok) == IF ok THEN FALSE ELSE TRUE

\* EthersLendingBorrowingContract.checkForBrokenHealthFactor: what the call
\* resolves with, given how the probe settled.
checkForBrokenHealthFactor(ok) == IF ok THEN TRUE ELSE FALSE

\* contract.userHealthFactor(account) as the hook awaits it: whether the promise
\* resolves, and with what, given how the underlying read settled.
HandleRead(handle, ok, value) ==
  IF handle \in Adapters
    THEN [resolved |-> TRUE, value |-> userHealthFactor(ok, value)]
    ELSE IF ok /\ ~formatUnitsThrows(value)
      THEN [resolved |-> TRUE, value |-> formatUnits(value, Decimals)]
      ELSE [resolved |-> FALSE, value |-> NullText]

\* ------------------------------------------------------------- the hook
\* !x of a dependency: null and the empty string are both falsy.
Falsy(x) == x = NULL \/ x = ""

\* A pending call of contract.userHealthFactor(a) on the handle c.
PendingCall(c, a) ==
  [account |-> a, handle |-> c,
   read |-> "pending",      \* the underlying read: pending, ok, failed
   returned |-> NullText,   \* the integer the underlying read returned
   promise |-> "pending",   \* the promise the hook awaits: pending, resolved, rejected
   value |-> NullText,      \* what that promise resolved with
   state |-> "pending"]     \* fetchHealthFactor: at its await, or past it in try or catch

\* The effect without its test of account: a call goes out for a null account.
EffectIgnoringAccount(c, a) ==
  /\ healthFactor' = healthFactor
  /\ IF Falsy(c) THEN calls' = calls ELSE calls' = Append(calls, PendingCall(c, a))

\* The effect clearing the published value when a dependency is absent.
EffectClearingWhenAbsent(c, a) ==
  IF Falsy(c) \/ Falsy(a)
    THEN /\ calls' = calls
         /\ healthFactor' = NullText
    ELSE /\ calls' = Append(calls, PendingCall(c, a))
         /\ healthFactor' = healthFactor

\* The body of useEffect run with the dependencies (c, a): it returns early when
\* one is falsy, and otherwise starts fetchHealthFactor, which runs to its await.
Effect(c, a) ==
  IF Falsy(c) \/ Falsy(a)
    THEN /\ calls' = calls
         /\ healthFactor' = healthFactor
    ELSE /\ calls' = Append(calls, PendingCall(c, a))
         /\ healthFactor' = healthFactor

\* The context hands the hook new dependencies and the hook renders: it reads
\* useDapp() and returns.  [contract, account] changed (compared by identity), so
\* React schedules the effect; it runs the pending effect of a render before it
\* renders again.
Render(c, a) ==
  /\ ~effectPending
  /\ <<c, a>> # <<contract, account>>
  /\ (~Falsy(c) /\ ~Falsy(a)) => Len(calls) < MaxCalls
  /\ contract' = c
  /\ account' = a
  /\ effectPending' = TRUE
  /\ UNCHANGED <<healthFactor, calls, microtasks, ops>>

\* React runs the effect of the last render, after commit.
RunEffect ==
  /\ effectPending
  /\ Effect(contract, account)
  /\ effectPending' = FALSE
  /\ UNCHANGED <<contract, account, microtasks, ops>>

\* What fetchHealthFactor does once its awaited call settled with r.
FetchContinues(r) ==
  IF r.resolved
    THEN healthFactor' = r.value
    ELSE healthFactor' = healthFactor

\* A continuation in the microtask queue: of the adapter's userHealthFactor
\* ("adapter") or of the hook's fetchHealthFactor ("hook"), for the i-th call.
Continuation(run, i) == [run |-> run, call |-> i]

\* The underlying read of the i-th issued call settles (ok with value, or failed).
\* Behind an adapter the continuation of its userHealthFactor is queued; the
\* promise of any other handle is the read itself, it settles with it and the
\* continuation of fetchHealthFactor is queued.
ReadSettles(i, ok, value) ==
  /\ i \in 1..Len(calls)
  /\ calls[i].read = "pending"
  /\ IF calls[i].handle \in Adapters
       THEN /\ calls' = [calls EXCEPT ![i] =
                           [@ EXCEPT !.read = IF ok THEN "ok" ELSE "failed",
                                     !.returned = IF ok THEN value ELSE NullText]]
            /\ microtasks' = Append(microtasks, Continuation("adapter", i))
       ELSE LET r == HandleRead(calls[i].handle, ok, value)
            IN  /\ calls' = [calls EXCEPT ![i] =
                               [@ EXCEPT !.read = IF ok THEN "ok" ELSE "failed",
                                         !.returned = IF ok THEN value ELSE NullText,
                                         !.promise = IF r.resolved THEN "resolved"
                                                     ELSE "rejected",
                                         !.value = r.value]]
                /\ microtasks' = Append(microtasks, Continuation("hook", i))
  /\ UNCHANGED <<contract, account, effectPending, healthFactor, ops>>

\* The first microtask runs and is the adapter's: userHealthFactor resumes after
\* its await, in try or in catch, and returns; the promise the hook awaits
\* resolves and the continuation of fetchHealthFactor is queued.
AdapterResumes ==
  /\ microtasks # <<>>
  /\ Head(microtasks).run = "adapter"
  /\ LET i == Head(microtasks).call
         r == HandleRead(calls[i].handle, calls[i].read = "ok", calls[i].returned)
     IN  /\ calls' = [calls EXCEPT ![i] =
                        [@ EXCEPT !.promise = IF r.resolved THEN "resolved" ELSE "rejected",
                                  !.value = r.value]]
         /\ microtasks' = Append(Tail(microtasks), Continuation("hook", i))
  /\ UNCHANGED <<contract, account, effectPending, healthFactor, ops>>

\* The first microtask runs and is the hook's: fetchHealthFactor resumes after
\* its await with what the promise settled with.
FetchResumes ==
  /\ microtasks # <<>>
  /\ Head(microtasks).run = "hook"
  /\ LET i == Head(microtasks).call
         r == [resolved |-> calls[i].promise = "resolved", value |-> calls[i].value]
     IN  /\ FetchContinues(r)
         /\ calls' = [calls EXCEPT ![i] =
                        [@ EXCEPT !.state = IF r.resolved THEN "resolved" ELSE "rejected"]]
  /\ microtasks' = Tail(microtasks)
  /\ UNCHANGED <<contract, account, effectPending, ops>>

\* ------------------------------------------------------------- the adapter
\* The operations that send a transaction; those of WithAmount scale an amount.
StateChanging ==
  {"depositCollateral", "borrowAsset", "withdrawCollateralDeposited", "repayLoan",
   "liquidatePosition", "addLiquidity", "withdrawFromLiquidityPool",
   "rebalancePortfolio", "transferOwnership", "acceptOwnership"}

WithAmount ==
  {"depositCollateral", "borrowAsset", "repayLoan", "liquidatePosition",
   "addLiquidity", "rebalancePortfolio"}

EventNames == {"CollateralDeposited", "AssetBorrowed"}

NoRawPool == [amount |-> NullText, withdrawalTime |-> NullText, addedAt |-> NullText]
NoPool == [amount |-> NullText, withdrawalTime |-> NullText, addedAt |-> NullText]

\* One call of an adapter method.  pc: "call" while the contract call is awaited,
\* "wait" while tx.wait() is awaited, then "resolved" or "rejected".
NewOp(name) ==
  [name |-> name, pc |-> "call",
   amount |-> NullText,      \* the decimal amount argument
   eventName |-> "none",     \* the eventName argument
   sent |-> NullText,        \* the scaled amount handed to the contract
   submit |-> "pending",     \* the contract call: pending, ok, or its fault
   wait |-> "none",          \* tx.wait(): none, pending, ok, or its fault
   returned |-> NullText,    \* the integer the contract call returned
   rawPool |-> NoRawPool,    \* the struct liquidityPool returned
   logs |-> <<>>,            \* the entries queryFilter returned
   fault |-> "none",         \* what the method's promise rejected with
   kind |-> "none",          \* the type of what it resolved with
   text |-> NullText, bool |-> FALSE, pool |-> NoPool, events |-> <<>>]

IdleOp == [NewOp("none") EXCEPT !.pc = "idle", !.submit = "none"]

\* The promise p stands for no call: a method can be called and give p.  Calls
\* do not wait for each other.
Free(p) == ops[p].pc = "idle"

Settled(p) == ops[p].pc \in {"resolved", "rejected"}

\* The caller's await takes the settled promise.  The adapter keeps nothing of a
\* call: its only fields are the two connection handles.
Return(p) ==
  /\ Settled(p)
  /\ ops' = [ops EXCEPT ![p] = IdleOp]
  /\ UNCHANGED <<contract, account, effectPending, healthFactor, calls, microtasks>>

\* A state-changing method is called: its body up to the first await.  An amount
\* that parseUnits refuses rejects the call before anything is sent.
CallStateChanging(p, name, amount) ==
  /\ Free(p)
  /\ name \in StateChanging
  /\ ops' = [ops EXCEPT ![p] =
       IF name \in WithAmount
         THEN IF parseUnitsThrows(amount, Decimals)
                THEN [NewOp(name) EXCEPT !.amount = amount, !.pc = "rejected",
                                         !.submit = "none", !.fault = "invalid amount"]
                ELSE [NewOp(name) EXCEPT !.amount = amount,
                                         !.sent = parseUnits(amount, Decimals)]
         ELSE NewOp(name)]
  /\ UNCHANGED <<contract, account, effectPending, healthFactor, calls, microtasks>>

\* A state-changing method that returns once the transaction is sent, without
\* awaiting tx.wait().
SubmissionSettlesWithoutWait(p, ok, fault) ==
  /\ ops[p].pc = "call"
  /\ ops[p].name \in StateChanging
  /\ ops' = [ops EXCEPT ![p] =
       IF ok
         THEN [@ EXCEPT !.pc = "resolved", !.submit = "ok", !.kind = "void"]
         ELSE [@ EXCEPT !.pc = "rejected", !.submit = fault, !.fault = fault]]
  /\ UNCHANGED <<contract, account, effectPending, healthFactor, calls, microtasks>>

\* The contract call of a state-changing method settles: with ok the method goes
\* on to await tx.wait(), otherwise the fault leaves the method.
SubmissionSettles(p, ok, fault) ==
  /\ ops[p].pc = "call"
  /\ ops[p].name \in StateChanging
  /\ ops' = [ops EXCEPT ![p] =
       IF ok
         THEN [@ EXCEPT !.pc = "wait", !.submit = "ok", !.wait = "pending"]
         ELSE [@ EXCEPT !.pc = "rejected", !.submit = fault, !.fault = fault]]
  /\ UNCHANGED <<contract, account, effectPending, healthFactor, calls, microtasks>>

\* tx.wait() settles: the method resolves with nothing, or the fault leaves it.
WaitSettles(p, ok, fault) ==
  /\ ops[p].pc = "wait"
  /\ ops' = [ops EXCEPT ![p] =
       IF ok
         THEN [@ EXCEPT !.pc = "resolved", !.wait = "ok", !.kind = "void"]
         ELSE [@ EXCEPT !.pc = "rejected", !.wait = fault, !.fault = fault]]
  /\ UNCHANGED <<contract, account, effectPending, healthFactor, calls, microtasks>>

\* userHealthFactor(user) and checkForBrokenHealthFactor(user) are called.
CallGuarded(p, name) ==
  /\ Free(p)
  /\ name \in {"userHealthFactor", "checkForBrokenHealthFactor"}
  /\ ops' = [ops EXCEPT ![p] = NewOp(name)]
  /\ UNCHANGED <<contract, account, effectPending, healthFactor, calls, microtasks>>

\* The contract call inside the try block settles.
GuardedSettles(p, ok, value, fault) ==
  /\ ops[p].pc = "call"
  /\ ops[p].name \in {"userHealthFactor", "checkForBrokenHealthFactor"}
  /\ ops' = [ops EXCEPT ![p] =
       IF ops[p].name = "userHealthFactor"
         THEN [@ EXCEPT !.pc = "resolved",
                        !.submit = IF ok THEN "ok" ELSE fault,
                        !.returned = IF ok THEN value ELSE NullText,
                        !.kind = "string",
                        !.text = userHealthFactor(ok, value)]
         ELSE [@ EXCEPT !.pc = "resolved",
                        !.submit = IF ok THEN "ok" ELSE fault,
                        !.kind = "boolean",
                        !.bool = checkForBrokenHealthFactor(ok)]]
  /\ UNCHANGED <<contract, account, effectPending, healthFactor, calls, microtasks>>

\* getAssetValueInUSD(token, amount) is called.
CallGetAssetValueInUSD(p, amount) ==
  /\ Free(p)
  /\ ops' = [ops EXCEPT ![p] =
       IF parseUnitsThrows(amount, Decimals)
         THEN [NewOp("getAssetValueInUSD") EXCEPT
                 !.amount = amount, !.pc = "rejected", !.submit = "none",
                 !.fault = "invalid amount"]
         ELSE [NewOp("getAssetValueInUSD") EXCEPT
                 !.amount = amount, !.sent = parseUnits(amount, Decimals)]]
  /\ UNCHANGED <<contract, account, effectPending, healthFactor, calls, microtasks>>

\* contract.getAssetValueInUSD returns valueInUSD, or fails; a throw of
\* formatUnits leaves the method, which has no try block.
GetAssetValueInUSDSettles(p, ok, valueInUSD, fault) ==
  /\ ops[p].pc = "call"
  /\ ops[p].name = "getAssetValueInUSD"
  /\ ops' = [ops EXCEPT ![p] =
       IF ~ok
         THEN [@ EXCEPT !.pc = "rejected", !.submit = fault, !.fault = fault]
       ELSE IF formatUnitsThrows(valueInUSD)
         THEN [@ EXCEPT !.pc = "rejected", !.submit = "ok", !.returned = valueInUSD,
                        !.fault = "invalid value"]
       ELSE [@ EXCEPT !.pc = "resolved", !.submit = "ok",
                      !.returned = valueInUSD, !.kind = "string",
                      !.text = formatUnits(valueInUSD, Decimals)]]
  /\ UNCHANGED <<contract, account, effectPending, healthFactor, calls, microtasks>>

\* getLiquidityPool(user, token) is called.
CallGetLiquidityPool(p) ==
  /\ Free(p)
  /\ ops' = [ops EXCEPT ![p] = NewOp("getLiquidityPool")]
  /\ UNCHANGED <<contract, account, effectPending, healthFactor, calls, microtasks>>

\* getLiquidityPool reading the two time stamps from each other's field.
LiquidityPoolOfSwapped(liquidity) ==
  [amount |-> formatUnits(liquidity.amount, Decimals),
   withdrawalTime |-> Number(formatUnits(liquidity.addedAt, 0)),
   addedAt |-> Number(formatUnits(liquidity.withdrawalTime, 0))]

\* The object getLiquidityPool builds from the struct the contract returned.
LiquidityPoolOf(liquidity) ==
  [amount |-> formatUnits(liquidity.amount, Decimals),
   withdrawalTime |-> Number(formatUnits(liquidity.withdrawalTime, 0)),
   addedAt |-> Number(formatUnits(liquidity.addedAt, 0))]

\* contract.liquidityPool returns its struct, or fails; a throw of formatUnits
\* leaves the method.
GetLiquidityPoolSettles(p, ok, liquidity, fault) ==
  /\ ops[p].pc = "call"
  /\ ops[p].name = "getLiquidityPool"
  /\ ops' = [ops EXCEPT ![p] =
       IF ~ok
         THEN [@ EXCEPT !.pc = "rejected", !.submit = fault, !.fault = fault]
       ELSE IF \/ formatUnitsThrows(liquidity.amount)
               \/ formatUnitsThrows(liquidity.withdrawalTime)
               \/ formatUnitsThrows(liquidity.addedAt)
         THEN [@ EXCEPT !.pc = "rejected", !.submit = "ok", !.rawPool = liquidity,
                        !.fault = "invalid value"]
       ELSE [@ EXCEPT !.pc = "resolved", !.submit = "ok",
                      !.rawPool = liquidity, !.kind = "pool",
                      !.pool = LiquidityPoolOf(liquidity)]]
  /\ UNCHANGED <<contract, account, effectPending, healthFactor, calls, microtasks>>

\* A log entry as queryFilter returns it, by what interface.parseLog makes of it:
\* "event" parses to args {user, token, amount, timeStamp} (a field NullText when
\* the event carries none), "unparsable" parses to null, "throws" makes parseLog throw.
EventLog(kind, user, token, amount, timeStamp) ==
  [kind |-> kind, user |-> user, token |-> token, amount |-> amount,
   timeStamp |-> timeStamp]

\* The null the map callback returns for an entry it gives up on.
NullEvent ==
  [user |-> NULL, token |-> NULL, amount |-> NullText, timeStamp |-> NullText,
   eventName |-> NULL]

\* The callback of events.map: the decoded event, or null.
ParsedEvent(log, eventName) ==
  IF log.kind = "throws" THEN NullEvent
  ELSE IF log.kind = "unparsable" THEN NullEvent
  ELSE IF formatUnitsThrows(log.amount) THEN NullEvent
  ELSE [user |-> log.user, token |-> log.token,
        amount |-> formatUnits(log.amount, Decimals),
        timeStamp |-> IF log.timeStamp = NullText THEN NaN
                      ELSE Times1000(Number(log.timeStamp)),
        eventName |-> eventName]

\* A decoding whose first failure ends the batch: what came before it is returned.
ParsedEventsUntilFailure(events, eventName) ==
  LET bad == {i \in 1..Len(events) : ParsedEvent(events[i], eventName) = NullEvent}
      stop == IF bad = {} THEN Len(events) + 1
              ELSE CHOOSE i \in bad : \A j \in bad : i <= j
  IN  [i \in 1..(stop - 1) |-> ParsedEvent(events[i], eventName)]

\* events.map(...).filter((event) => event !== null)
ParsedEvents(events, eventName) ==
  SelectSeq([i \in 1..Len(events) |-> ParsedEvent(events[i], eventName)],
            LAMBDA e : e # NullEvent)

\* queryFilterEventByAccount(acount, eventName, fromBlock, toBlock) is called.
CallQueryFilterEventByAccount(p, eventName) ==
  /\ Free(p)
  /\ ops' = [ops EXCEPT ![p] =
       [NewOp("queryFilterEventByAccount") EXCEPT !.eventName = eventName]]
  /\ UNCHANGED <<contract, account, effectPending, healthFactor, calls, microtasks>>

\* contractJsonRPC.queryFilter returns its entries, or fails.
QueryFilterSettles(p, ok, events, fault) ==
  /\ ops[p].pc = "call"
  /\ ops[p].name = "queryFilterEventByAccount"
  /\ ops' = [ops EXCEPT ![p] =
       IF ok
         THEN [@ EXCEPT !.pc = "resolved", !.submit = "ok", !.logs = events,
                        !.kind = "events",
                        !.events = ParsedEvents(events, ops[p].eventName)]
         ELSE [@ EXCEPT !.pc = "rejected", !.submit = fault, !.fault = fault]]
  /\ UNCHANGED <<contract, account, effectPending, healthFactor, calls, microtasks>>

\* ------------------------------------------------------------- inputs
SeqsUpTo(S, n) == UNION {[1..k -> S] : k \in 0..n}

\* Fractional parts at and around the scale: 18 digits, and 19 with the last
\* digit zero or not.
LongFracs ==
  {Zeros(Decimals - 1) \o <<"3">>, <<"3">> \o Zeros(Decimals - 1),
   <<"3">> \o Zeros(Decimals), Zeros(Decimals) \o <<"3">>}

\* The whole and fractional digits of the decimal that scales to 2^511.
LimitWhole == SubSeq(limit, 1, Len(limit) - Decimals)
LimitFrac == SubSeq(limit, Len(limit) - Decimals + 1, Len(limit))

\* Decimals around the range of checkValue: the ones scaling to 2^511, to
\* 2^511 - 1 and to their negatives, and 6*10^135 and 7*10^135 written out.
Huge ==
  {sign \o m : sign \in {<<>>, <<"-">>},
               m \in {LimitWhole \o <<".">> \o LimitFrac,
                      LimitWhole \o <<".">> \o SubSeq(LimitFrac, 1, Decimals - 1) \o <<"7">>,
                      <<"6">> \o Zeros(135), <<"7">> \o Zeros(135)}}

Malformed == {<<"a">>, <<"1", ".", "2", ".", "3">>, <<"1", "e", "3">>, <<"7", "-">>}

\* The amounts a caller passes: decimals in every spelling, and texts that are none.
AmountTexts ==
  {sign \o w \o dot \o f :
     sign \in {<<>>, <<"-">>}, w \in SeqsUpTo({"0", "7"}, MaxWholeLen),
     dot \in {<<>>, <<".">>},
     f \in SeqsUpTo({"0", "3"}, MaxFracLen) \cup LongFracs}
  \cup Malformed \cup Huge

\* Amounts for the state-changing methods: two decimals, a text that is none,
\* one with a nineteenth fractional digit, and one beyond the range.
SomeAmounts ==
  {<<"7">>, <<"0", ".", "3">>, <<"a">>, <<"0", ".">> \o Zeros(Decimals) \o <<"3">>,
   <<"7">> \o Zeros(135)}

\* 2^53 + 1, the first integer that is no double.
Above2Pow53 == <<"9","0","0","7","1","9","9","2","5","4","7","4","0","9","9","3">>

\* uint256 time stamps: small ones, and one beyond the integers a double holds.
TimeValues == {<<"0">>, <<"1", "0", "0", "0">>, <<"2", "0", "0", "0">>, Above2Pow53}

RawPools ==
  [amount : ReadValues, withdrawalTime : TimeValues, addedAt : TimeValues]

\* The structs offered while calls overlap.
SomePools ==
  {[amount |-> <<"5">> \o Zeros(18), withdrawalTime |-> <<"1", "0", "0", "0">>,
    addedAt |-> <<"2", "0", "0", "0">>],
   [amount |-> <<"0">>, withdrawalTime |-> Above2Pow53, addedAt |-> <<"0">>]}

\* A present-day block time in seconds, and a time stamp beyond 2^53.
LogTimes == {<<"1","7","0","0","0","0","0","0","0","0">>, Above2Pow53}

LogEntries ==
  {EventLog("event", "0xA", "0xT", a, t) :
     a \in {<<"1", "5">> \o Zeros(17), <<"5">> \o Zeros(18), NullText},
     t \in LogTimes}
  \cup {EventLog(k, NULL, NULL, NullText, NullText) : k \in {"unparsable", "throws"}}

LogBatches == SeqsUpTo(LogEntries, MaxLogs)

\* The batches offered while calls overlap: empty, and one entry of each kind.
SomeBatches ==
  {<<>>,
   <<EventLog("event", "0xA", "0xT", <<"5">> \o Zeros(18), Above2Pow53),
     EventLog("throws", NULL, NULL, NullText, NullText),
     EventLog("event", "0xA", "0xT", NullText, Above2Pow53)>>}

NoCalls == [p \in Slots |-> IdleOp]

\* ------------------------------------------------------------- the hook
\* The hook mounted under some initial dependencies: it rendered, and the effect
\* of that render is still to run.  The handle is absent or an adapter instance.
InitHook ==
  /\ contract \in {NULL} \cup Adapters
  /\ account \in {NULL} \cup Accounts
  /\ effectPending = TRUE
  /\ healthFactor = NullText
  /\ calls = <<>>
  /\ microtasks = <<>>
  /\ ops = NoCalls

NextHook ==
  \/ \E c \in {NULL} \cup Adapters, a \in {NULL} \cup Accounts : Render(c, a)
  \/ RunEffect
  \/ \E i \in 1..MaxCalls, v \in SomeReads : ReadSettles(i, TRUE, v)
  \/ \E i \in 1..MaxCalls : ReadSettles(i, FALSE, NullText)
  \/ AdapterResumes
  \/ FetchResumes

SpecHook == InitHook /\ [][NextHook]_vars

\* ------------------------------------------------------------- the hook, over any handle
\* As InitHook, the handle being any implementation of the interface.
InitAnyHandle ==
  /\ contract \in {NULL} \cup Handles
  /\ account \in {NULL} \cup Accounts
  /\ effectPending = TRUE
  /\ healthFactor = NullText
  /\ calls = <<>>
  /\ microtasks = <<>>
  /\ ops = NoCalls

NextAnyHandle ==
  \/ \E c \in {NULL} \cup Handles, a \in {NULL} \cup Accounts : Render(c, a)
  \/ RunEffect
  \/ \E i \in 1..MaxCalls, v \in HookReads : ReadSettles(i, TRUE, v)
  \/ \E i \in 1..MaxCalls : ReadSettles(i, FALSE, NullText)
  \/ AdapterResumes
  \/ FetchResumes

SpecAnyHandle == InitAnyHandle /\ [][NextAnyHandle]_vars

\* ------------------------------------------------------------- the adapter, calls overlapping
InitAdapter ==
  /\ contract = NULL
  /\ account = NULL
  /\ effectPending = FALSE
  /\ healthFactor = NullText
  /\ calls = <<>>
  /\ microtasks = <<>>
  /\ ops = NoCalls

NextAdapter ==
  \E p \in Slots :
    \/ \E name \in WithAmount, amount \in SomeAmounts : CallStateChanging(p, name, amount)
    \/ \E name \in StateChanging \ WithAmount : CallStateChanging(p, name, NullText)
    \/ SubmissionSettles(p, TRUE, "none")
    \/ \E fault \in Faults : SubmissionSettles(p, FALSE, fault)
    \/ WaitSettles(p, TRUE, "none")
    \/ \E fault \in Faults : WaitSettles(p, FALSE, fault)
    \/ \E name \in {"userHealthFactor", "checkForBrokenHealthFactor"} : CallGuarded(p, name)
    \/ \E value \in ReadValues \cup {NullText} : GuardedSettles(p, TRUE, value, "none")
    \/ \E fault \in Faults : GuardedSettles(p, FALSE, NullText, fault)
    \/ \E amount \in SomeAmounts : CallGetAssetValueInUSD(p, amount)
    \/ \E value \in {ops[p].sent, NullText} : GetAssetValueInUSDSettles(p, TRUE, value, "none")
    \/ \E fault \in Faults : GetAssetValueInUSDSettles(p, FALSE, NullText, fault)
    \/ CallGetLiquidityPool(p)
    \/ \E liquidity \in SomePools \cup {NoRawPool} :
         GetLiquidityPoolSettles(p, TRUE, liquidity, "none")
    \/ \E fault \in Faults : GetLiquidityPoolSettles(p, FALSE, NoRawPool, fault)
    \/ \E eventName \in EventNames : CallQueryFilterEventByAccount(p, eventName)
    \/ \E events \in SomeBatches : QueryFilterSettles(p, TRUE, events, "none")
    \/ \E fault \in Faults : QueryFilterSettles(p, FALSE, <<>>, fault)
    \/ Return(p)

SpecAdapter == InitAdapter /\ [][NextAdapter]_vars

\* ------------------------------------------------------------- the adapter's reads, one call at a time
\* The promise the reads are followed on.
One == "p1"

NextReads ==
  \/ \E amount \in AmountTexts : CallGetAssetValueInUSD(One, amount)
  \/ \E value \in ReadValues \cup {ops[One].sent, NullText} :
       GetAssetValueInUSDSettles(One, TRUE, value, "none")
  \/ \E fault \in Faults : GetAssetValueInUSDSettles(One, FALSE, NullText, fault)
  \/ CallGetLiquidityPool(One)
  \/ \E liquidity \in RawPools \cup {NoRawPool} :
       GetLiquidityPoolSettles(One, TRUE, liquidity, "none")
  \/ \E fault \in Faults : GetLiquidityPoolSettles(One, FALSE, NoRawPool, fault)
  \/ \E eventName \in EventNames : CallQueryFilterEventByAccount(One, eventName)
  \/ \E events \in LogBatches : QueryFilterSettles(One, TRUE, events, "none")
  \/ \E fault \in Faults : QueryFilterSettles(One, FALSE, <<>>, fault)
  \/ Return(One)

SpecReads == InitAdapter /\ [][NextReads]_vars

\* ------------------------------------------------------------- the hook's calls
\* The calls issued so far stay as issued, in order.
SameIssued(n) ==
  \A i \in 1..n : /\ calls'[i].account = calls[i].account
                  /\ calls'[i].handle = calls[i].handle

\* The step is a run of the effect.
EffectRuns == effectPending /\ ~effectPending'

\* C1: the hook issues calls of contract.userHealthFactor only in a run of its
\* effect; a run with account null issues none; a run with the handle ready and
\* account non-null issues exactly one, for that account on that handle; and
\* every change of account (null to a value, a value to another) schedules one
\* run of the effect, which comes before the next change.
C1_CallsFollowAccount ==
  [][ /\ SameIssued(Len(calls))
      /\ ~EffectRuns => Len(calls') = Len(calls)
      /\ (EffectRuns /\ account = NULL) => Len(calls') = Len(calls)
      /\ (EffectRuns /\ account # NULL /\ contract # NULL) =>
           /\ Len(calls') = Len(calls) + 1
           /\ calls'[Len(calls')] = PendingCall(contract, account)
      /\ account' # account => (~effectPending /\ effectPending')
      /\ \A i \in 1..Len(calls') : calls'[i].account # NULL ]_vars

\* Account went from one value to another and each change issued its own call.
C1_Witness ==
  /\ Len(calls) = 2
  /\ calls[1].account # calls[2].account
  /\ account = calls[2].account
  /\ ~effectPending

\* C8: a run of the effect with the contract handle or the account absent leaves
\* the published healthFactor as it was; it is not reset to null.
C8_AbsentLeavesHealthFactor ==
  [][ (EffectRuns /\ (contract = NULL \/ account = NULL))
        => healthFactor' = healthFactor ]_vars

\* Account is back to null, the effect has run, and the value published for the
\* earlier account stays.
C8_Witness ==
  /\ account = NULL
  /\ ~effectPending
  /\ healthFactor # NullText
  /\ \E i \in 1..Len(calls) : calls[i].state = "resolved" /\ calls[i].value = healthFactor

\* C6: when the health-factor read of a call the hook issued failed, the step in
\* which fetchHealthFactor resumes for that call leaves the published
\* healthFactor at the value it had: against the adapter as well as against a
\* handle whose read rejects.
C6_FailedReadLeavesHealthFactor ==
  [][ \A i \in 1..Len(calls) :
        (calls[i].read = "failed" /\ calls[i].state = "pending"
           /\ calls'[i].state # "pending")
          => healthFactor' = healthFactor ]_vars

\* C10: once every issued read has completed, and the most recently issued one
\* resolved, the published healthFactor is the result of that most recent read.
C10_LatestReadWins ==
  (/\ Len(calls) >= 2
   /\ calls[Len(calls) - 1].account # calls[Len(calls)].account
   /\ \A i \in 1..Len(calls) : calls[i].state # "pending"
   /\ calls[Len(calls)].state = "resolved")
    => healthFactor = calls[Len(calls)].value

\* ------------------------------------------------------------- the adapter's calls
\* C2: userHealthFactor never fails to its caller: whenever the underlying read
\* failed, or returned what formatUnits refuses, the call resolved, with the
\* text "0"; this whatever another call in progress does.
C2_UserHealthFactorFailSoft ==
  \A p \in Slots :
    ops[p].name = "userHealthFactor" =>
      /\ ops[p].pc # "rejected"
      /\ (ops[p].submit \in Faults \/ (ops[p].submit = "ok" /\ ops[p].returned = NullText)) =>
           (ops[p].pc = "resolved" /\ ops[p].kind = "string" /\ ops[p].text = <<"0">>)

\* The underlying read failed on connectivity and the call resolved, while a
\* deposit called before it is still pending.
C2_Witness ==
  \E p, q \in Slots :
    /\ ops[p].name = "userHealthFactor" /\ ops[p].submit = "network"
    /\ ops[p].pc = "resolved"
    /\ ops[q].name = "depositCollateral" /\ ops[q].pc = "wait"

\* C3: checkForBrokenHealthFactor never fails and resolves with a boolean: true
\* exactly when the probe resolved, false exactly when it failed, on a revert as
\* on a connectivity fault.
C3_CheckResolvesBoolean ==
  \A p \in Slots :
    ops[p].name = "checkForBrokenHealthFactor" =>
      /\ ops[p].pc # "rejected"
      /\ ops[p].submit # "pending" =>
           /\ ops[p].pc = "resolved"
           /\ ops[p].kind = "boolean"
           /\ ops[p].bool = TRUE <=> ops[p].submit = "ok"
           /\ ops[p].bool = FALSE <=> ops[p].submit \in Faults

\* The probe failed on connectivity and the call resolved with false.
C3_Witness ==
  \E p \in Slots :
    /\ ops[p].name = "checkForBrokenHealthFactor"
    /\ ops[p].submit = "network"
    /\ ops[p].pc = "resolved"
    /\ ops[p].bool = FALSE

\* An entry decodes: parseLog gives its args and the amount is a number.
Decodes(log) == log.kind = "event" /\ log.amount # NullText

\* The event e is the entry log decoded: same user and token, the amount rescaled
\* by 10^18 to a decimal text, the time stamp in milliseconds (exactly, while the
\* milliseconds are an integer a double holds; 2^53 + 1 seconds read as 2^53).
DecodedAs(e, log, eventName) ==
  /\ e.user = log.user
  /\ e.token = log.token
  /\ ~parseUnitsThrows(e.amount, Decimals)
  /\ parseUnits(e.amount, Decimals) = log.amount
  /\ AtMost(log.timeStamp \o Zeros(3), TwoPow53) => e.timeStamp = log.timeStamp \o Zeros(3)
  /\ log.timeStamp = Above2Pow53 => e.timeStamp = TwoPow53 \o Zeros(3)
  /\ e.eventName = eventName

\* C4: when the log query returned, queryFilterEventByAccount resolves with the
\* decoded events of exactly the entries that decode, in log order: the k-th
\* decoding entry gives the k-th event, whatever the other entries do.
C4_DecodedInOrder ==
  (ops[One].name = "queryFilterEventByAccount" /\ ops[One].submit = "ok") =>
    LET D == {i \in 1..Len(ops[One].logs) : Decodes(ops[One].logs[i])}
        Rank(i) == Cardinality({j \in D : j <= i})
    IN  /\ ops[One].pc = "resolved"
        /\ Len(ops[One].events) = Cardinality(D)
        /\ \A i \in D :
             DecodedAs(ops[One].events[Rank(i)], ops[One].logs[i], ops[One].eventName)

\* Entry 2 of 3 makes parseLog throw; the first and third come back.
C4_Witness ==
  /\ ops[One].name = "queryFilterEventByAccount"
  /\ ops[One].pc = "resolved"
  /\ Len(ops[One].logs) = 3
  /\ Decodes(ops[One].logs[1]) /\ ops[One].logs[2].kind = "throws"
  /\ Decodes(ops[One].logs[3])
  /\ ops[One].logs[1] # ops[One].logs[3]
  /\ Len(ops[One].events) = 2

\* C5: a state-changing operation resolves only once its transaction was
\* submitted and the wait for it completed, and then with no value; when the
\* submission fails or the transaction reverts it rejects with that fault; this
\* whatever another call in progress does.
C5_ResolvesAfterWait ==
  \A p \in Slots :
    ops[p].name \in StateChanging =>
      /\ ops[p].pc = "resolved" =>
           (ops[p].submit = "ok" /\ ops[p].wait = "ok" /\ ops[p].kind = "void")
      /\ ops[p].submit \in Faults => (ops[p].pc = "rejected" /\ ops[p].fault = ops[p].submit)
      /\ ops[p].wait \in Faults => (ops[p].pc = "rejected" /\ ops[p].fault = ops[p].wait)
      /\ ops[p].wait # "none" => ops[p].submit = "ok"

\* The transaction was submitted and reverted: the call rejected with the revert,
\* while another state-changing call resolved.
C5_Witness ==
  \E p, q \in Slots :
    /\ ops[p].name \in StateChanging
    /\ ops[p].submit = "ok"
    /\ ops[p].wait = "revert"
    /\ ops[p].pc = "rejected"
    /\ ops[q].name \in StateChanging
    /\ ops[q].pc = "resolved"

\* getLiquidityPool resolved.
PoolReturned == ops[One].name = "getLiquidityPool" /\ ops[One].pc = "resolved"

\* The amount of the pool is the contract's amount rescaled by 10^18, and
\* {5*10^18, 1000, 2000} gives {"5.0", 1000, 2000}.
PoolAmountAndExample ==
  /\ ops[One].kind = "pool"
  /\ ~parseUnitsThrows(ops[One].pool.amount, Decimals)
  /\ parseUnits(ops[One].pool.amount, Decimals) = ops[One].rawPool.amount
  /\ ops[One].rawPool = [amount |-> <<"5">> \o Zeros(18),
                         withdrawalTime |-> <<"1", "0", "0", "0">>,
                         addedAt |-> <<"2", "0", "0", "0">>]
       => ops[One].pool = [amount |-> <<"5", ".", "0">>,
                           withdrawalTime |-> <<"1", "0", "0", "0">>,
                           addedAt |-> <<"2", "0", "0", "0">>]

\* C9 as stated: getLiquidityPool returns amount as the contract's amount rescaled
\* by 10^18 to a decimal text, and withdrawalTime and addedAt as numbers equal to
\* the integers the contract returned.
C9_TimesAsReturned ==
  PoolReturned =>
    /\ PoolAmountAndExample
    /\ ops[One].pool.withdrawalTime = ops[One].rawPool.withdrawalTime
    /\ ops[One].pool.addedAt = ops[One].rawPool.addedAt

\* C9 as amended: getLiquidityPool returns amount as the contract's amount
\* rescaled by 10^18 to a decimal text, and withdrawalTime and addedAt as numbers,
\* undivided: equal to the integer the contract returned when that is at most
\* 2^53, and a neighbouring double beyond (2^53 + 1 comes back as 2^53).
C9_LiquidityPoolShape ==
  PoolReturned =>
    /\ PoolAmountAndExample
    /\ \A f \in {"withdrawalTime", "addedAt"} :
         /\ AtMost(ops[One].rawPool[f], TwoPow53) => ops[One].pool[f] = ops[One].rawPool[f]
         /\ ops[One].rawPool[f] = Above2Pow53 => ops[One].pool[f] = TwoPow53

\* The contract returned {5*10^18, 1000, 2000}.
C9_Witness ==
  /\ PoolReturned
  /\ ops[One].rawPool.amount = <<"5">> \o Zeros(18)
  /\ ops[One].pool = [amount |-> <<"5", ".", "0">>,
                      withdrawalTime |-> <<"1", "0", "0", "0">>,
                      addedAt |-> <<"2", "0", "0", "0">>]

\* A decimal text with at most 18 fractional digits.
DecimalUpToScale(d) ==
  /\ MatchesDecimal(d)
  /\ Len(WholeOf(d)) + Len(FracOf(d)) > 0
  /\ Len(FracOf(d)) <= Decimals

\* The canonical spelling of a decimal text: no leading zeros before the point
\* (one digit at least), no trailing zeros after it (one digit at least), and no
\* minus sign on zero.
Canonical(d) ==
  LET w == WholeOf(d)
      f == FracOf(d)
      wnz == {i \in 1..Len(w) : w[i] # "0"}
      fnz == {i \in 1..Len(f) : f[i] # "0"}
      whole == IF wnz = {} THEN <<"0">>
               ELSE SubSeq(w, CHOOSE i \in wnz : \A j \in wnz : i <= j, Len(w))
      frac == IF fnz = {} THEN <<"0">>
              ELSE SubSeq(f, 1, CHOOSE i \in fnz : \A j \in fnz : j <= i)
      sign == IF SignOf(d) /\ (wnz # {} \/ fnz # {}) THEN <<"-">> ELSE <<>>
  IN  sign \o whole \o <<".">> \o frac

\* d is spelled canonically, said of its characters.
IsCanonical(d) ==
  LET w == WholeOf(d)
      f == FracOf(d)
  IN  /\ DotAt(Unsigned(d)) # 0
      /\ Len(w) >= 1 /\ (Len(w) > 1 => w[1] # "0")
      /\ Len(f) >= 1 /\ (Len(f) > 1 => f[Len(f)] # "0")
      /\ SignOf(d) => (w # <<"0">> \/ f # <<"0">>)

\* The contract echoed the amount it was handed.
Echoed ==
  ops[One].name = "getAssetValueInUSD" /\ ops[One].pc = "resolved" /\ ops[One].returned = ops[One].sent

\* C7 as stated: for every decimal text d with at most 18 fractional digits,
\* getAssetValueInUSD around an echoing contract returns d unchanged.
C7_RoundTripUnchanged ==
  (Echoed /\ DecimalUpToScale(ops[One].amount)) => ops[One].text = ops[One].amount

\* The magnitude d scales to: its digits with the fraction filled up to 18.
ScaledDigits(d) ==
  StripLeadingZeros(WholeOf(d) \o FracOf(d) \o Zeros(Decimals - Len(FracOf(d))))

\* The integer d scales to is a signed 512-bit one: -2^511 <= d*10^18 < 2^511.
WithinRange(d) ==
  \/ AtMost(ScaledDigits(d), limit) /\ ScaledDigits(d) # limit
  \/ SignOf(d) /\ ScaledDigits(d) = limit

\* C7 as amended: for every decimal text d with at most 18 fractional digits,
\* the amount is refused exactly when d*10^18 is no signed 512-bit integer; and
\* when it is one, around an echoing contract getAssetValueInUSD returns the
\* canonical spelling of d; d comes back unchanged exactly when it is spelled
\* canonically already.
C7_RoundTripCanonical ==
  (ops[One].name = "getAssetValueInUSD" /\ DecimalUpToScale(ops[One].amount)) =>
    /\ ops[One].fault = "invalid amount" <=> ~WithinRange(ops[One].amount)
    /\ WithinRange(ops[One].amount) => ops[One].pc # "idle"
    /\ Echoed =>
         /\ WithinRange(ops[One].amount)
         /\ ops[One].text = Canonical(ops[One].amount)
         /\ ops[One].text = ops[One].amount <=> IsCanonical(ops[One].amount)

\* "7" went out as 7*10^18 and came back as "7.0".
C7_Witness ==
  /\ Echoed
  /\ ops[One].amount = <<"7">>
  /\ ops[One].text = <<"7", ".", "0">>
====
